---- MODULE Spec2Model ----
(***************************************************************************)
(* Model of src/index.js: the route table built at start-up, the request   *)
(* listener with its six GET handlers, and sendFileAsStream with its       *)
(* fs.stat callback and the events of the read stream it pipes into the    *)
(* response.                                                               *)
(*                                                                         *)
(* Strings are sequences of tokens.  A token is one character ("0", "-",   *)
(* "/", ":") or a run of letters that the code never looks inside          *)
(* ("bytes=", "api", "abc").  Numbers are JavaScript numbers: a record     *)
(* that is an integer, NaN or Infinity.                                    *)
(*                                                                         *)
(* The runtime is Node.js (>= 12): ServerResponse.writeHead throws         *)
(* ERR_HTTP_HEADERS_SENT once a header block is stored, fs.createReadStream*)
(* throws ERR_OUT_OF_RANGE on a non-integer or negative start/end or on    *)
(* start > end, an 'error' event with no listener is thrown, and an        *)
(* exception nobody catches ends the process (index.js installs no         *)
(* 'uncaughtException' handler), closing every open connection.            *)
(***************************************************************************)
EXTENDS Integers, Sequences, FiniteSets

\* Largest file size on the modelled disk, in bytes.
MaxFileSize == 2

\* Bytes per 'data' event of the ranged stream (4 MiB in the source, scaled).
HighWaterMark == 1

\* Bytes per 'data' event of the full-file stream (the runtime default, scaled).
DefaultHighWaterMark == 1

\* The response objects (one per request or invocation), in the order in
\* which their requests arrive.
RequestOrder == <<"r1", "r2">>
Requests == {RequestOrder[i] : i \in DOMAIN RequestOrder}

\* Largest number written in a Range header: one past the largest file.
MaxNum == MaxFileSize + 1

(***************************************************************************)
(* JavaScript values                                                       *)
(***************************************************************************)
Undefined == <<"undefined">>

NaN == [k |-> "nan", v |-> 0]
Infinity == [k |-> "inf", v |-> 0]
NoNumber == [k |-> "none", v |-> 0]
Num(n) == [k |-> "num", v |-> n]
IsInteger(x) == x.k = "num"

\* a - b on JavaScript numbers (only integers and NaN meet here).
Minus(a, b) == IF IsInteger(a) /\ IsInteger(b) THEN Num(a.v - b.v) ELSE NaN

\* a + b
Plus(a, b) == IF IsInteger(a) /\ IsInteger(b) THEN Num(a.v + b.v) ELSE NaN

DigitChars == <<"0", "1", "2", "3", "4", "5", "6", "7", "8", "9">>
IsDigit(c) == \E i \in 1..10 : DigitChars[i] = c
DigitVal(c) == (CHOOSE i \in 1..10 : DigitChars[i] = c) - 1

RECURSIVE Dec(_)
Dec(n) == IF n < 10 THEN <<DigitChars[n + 1]>>
          ELSE Dec(n \div 10) \o <<DigitChars[(n % 10) + 1]>>

\* `${x}` of a number.
NumToString(x) ==
    CASE x.k = "nan" -> <<"NaN">>
      [] x.k = "inf" -> <<"Infinity">>
      [] OTHER -> IF x.v < 0 THEN <<"-">> \o Dec(-x.v) ELSE Dec(x.v)

RECURSIVE SkipSpace(_)
SkipSpace(s) == IF s # <<>> /\ Head(s) = " " THEN SkipSpace(Tail(s)) ELSE s

RECURSIVE ParseDigits(_, _)
ParseDigits(s, acc) ==
    IF s = <<>> \/ ~IsDigit(Head(s)) THEN acc
    ELSE ParseDigits(Tail(s), acc * 10 + DigitVal(Head(s)))

\* parseInt(s, 10): leading blanks, a sign, then the longest run of digits;
\* NaN when there is no digit; whatever follows the digits is ignored.
parseInt(s) ==
    LET t == SkipSpace(s)
        neg == t # <<>> /\ Head(t) = "-"
        u == IF t # <<>> /\ Head(t) \in {"+", "-"} THEN Tail(t) ELSE t
    IN  IF u = <<>> \/ ~IsDigit(Head(u)) THEN NaN
        ELSE Num((IF neg THEN -1 ELSE 1) * ParseDigits(u, 0))

\* Index of the first occurrence of pat in s, 0 when there is none.
IndexOf(s, pat) ==
    LET hits == {i \in 1..(Len(s) - Len(pat) + 1) : SubSeq(s, i, i + Len(pat) - 1) = pat}
    IN  IF hits = {} THEN 0 ELSE CHOOSE i \in hits : \A j \in hits : i <= j

\* s.replace(/pat/, ""): the first occurrence is removed.
ReplaceFirst(s, pat) ==
    LET i == IndexOf(s, pat)
    IN  IF i = 0 THEN s ELSE SubSeq(s, 1, i - 1) \o SubSeq(s, i + Len(pat), Len(s))

\* s.split(sep)
RECURSIVE Split(_, _)
Split(s, sep) ==
    LET i == IndexOf(s, <<sep>>)
    IN  IF i = 0 THEN <<s>>
        ELSE <<SubSeq(s, 1, i - 1)>> \o Split(SubSeq(s, i + 1, Len(s)), sep)

\* parts.filter(part => part.length > 0)
NonEmptyParts(parts) == SelectSeq(parts, LAMBDA p : Len(p) > 0)

(***************************************************************************)
(* The route table and the catalog                                         *)
(***************************************************************************)
Methods == {"GET", "POST", "PUT", "DELETE"}

\* app.matchRoute(pattern, path): null (matched FALSE) when the parts differ
\* in number or a literal part differs; otherwise the params, each :name part
\* binding the path part at its place.
matchRoute(pattern, path) ==
    LET patternParts == NonEmptyParts(Split(pattern, "/"))
        pathParts == NonEmptyParts(Split(path, "/"))
        n == Len(patternParts)
        isParam(i) == Head(patternParts[i]) = ":"
    IN  IF n # Len(pathParts) THEN [matched |-> FALSE, params |-> {}]
        ELSE IF \E i \in 1..n : ~isParam(i) /\ patternParts[i] # pathParts[i]
             THEN [matched |-> FALSE, params |-> {}]
        ELSE [matched |-> TRUE,
              params |-> {[name |-> Tail(patternParts[i]), value |-> pathParts[i],
                           at |-> i] : i \in {j \in 1..n : isParam(j)}}]

\* params[name]: the last binding of the name wins; undefined when unbound.
Param(params, name) ==
    LET mine == {b \in params : b.name = name}
    IN  IF mine = {} THEN Undefined
        ELSE (CHOOSE b \in mine : \A c \in mine : c.at <= b.at).value

\* app.findEndpointHandler(method, path) over the table eps: the first
\* endpoint of the method whose pattern matches; handler "null" when the
\* method has no list or no pattern matches.
findEndpointHandler(eps, method, path) ==
    IF method \notin DOMAIN eps THEN [handler |-> "null", params |-> {}]
    ELSE LET list == eps[method]
             hits == {i \in 1..Len(list) : matchRoute(list[i].path, path).matched}
         IN  IF hits = {} THEN [handler |-> "null", params |-> {}]
             ELSE LET first == CHOOSE i \in hits : \A j \in hits : i <= j
                  IN  [handler |-> list[first].handler,
                       params |-> matchRoute(list[first].path, path).params]

\* app.registerEndpoint(method, path, handler)
registerEndpoint(eps, method, path, handler) ==
    IF method \in DOMAIN eps
    THEN [eps EXCEPT ![method] = Append(@, [path |-> path, handler |-> handler])]
    ELSE eps

\* The app.get(...) calls of the module body, in source order.
Registrations == <<
    [method |-> "GET", path |-> <<"/">>, handler |-> "root"],
    [method |-> "GET", path |-> <<"/", "favicon.ico">>, handler |-> "favicon"],
    [method |-> "GET", path |-> <<"/", "api", "/", "videos">>, handler |-> "videos"],
    [method |-> "GET", path |-> <<"/", "api", "/", "videos", "/", ":", "id", "/", "info">>,
     handler |-> "videoInfo"],
    [method |-> "GET", path |-> <<"/", "api", "/", "videos", "/", ":", "id">>,
     handler |-> "video"],
    [method |-> "GET", path |-> <<"/", "api", "/", "thumbnails", "/", ":", "id">>,
     handler |-> "thumbnail"] >>

\* The hardcoded catalog; the fields that are files on disk.
videoList == <<
    [id |-> <<"1">>,
     thumbnailUrl |-> "./thumbnails/metropolis.png",
     videoUrl |-> "./videos/metropolis.mp4"] >>

\* videoList.find(v => v.id === id) finds an entry.
HasVideo(id) == \E i \in 1..Len(videoList) : videoList[i].id = id

\* The entry videoList.find(v => v.id === id) returns: the first with the id.
FindVideo(id) ==
    videoList[CHOOSE i \in 1..Len(videoList) :
                 /\ videoList[i].id = id
                 /\ \A j \in 1..Len(videoList) : videoList[j].id = id => i <= j]

\* obj[field] is not undefined.
HasField(obj, field) == field \in DOMAIN obj

\* The paths of the modelled disk: the video of the catalog entry.  Every
\* other path is absent.
Paths == {"./videos/metropolis.mp4"}

(***************************************************************************)
(* sendFileAsStream: the pure steps                                        *)
(***************************************************************************)
\* Mutant: only a missing header counts, an empty one is parsed as a range.
NoRange_MissingOnly(rangeHeader) == rangeHeader = Undefined

\* !rangeHeader || rangeHeader.length === 0
NoRange(rangeHeader) == rangeHeader = Undefined \/ Len(rangeHeader) = 0

\* rangeHeader.replace(/bytes=/, "").split("-")
RangeParts(rangeHeader) == Split(ReplaceFirst(rangeHeader, <<"bytes=">>), "-")

\* parseInt(range[0], 10)
RangeStart(rangeHeader) == parseInt(RangeParts(rangeHeader)[1])

\* Mutant: an omitted end defaults to fileSize, one past the last byte.
RangeEnd_FileSize(rangeHeader, fileSize) ==
    LET range == RangeParts(rangeHeader)
    IN  IF Len(range) >= 2 /\ Len(range[2]) > 0 THEN parseInt(range[2])
        ELSE Num(fileSize)

\* range[1] ? parseInt(range[1], 10) : fileSize - 1
RangeEnd(rangeHeader, fileSize) ==
    LET range == RangeParts(rangeHeader)
    IN  IF Len(range) >= 2 /\ Len(range[2]) > 0 THEN parseInt(range[2])
        ELSE Num(fileSize - 1)

\* (end - start) + 1
ChunkSize(start, end) == Plus(Minus(end, start), Num(1))

\* `bytes ${start}-${end}/${fileSize}`
ContentRange(start, end, fileSize) ==
    <<"bytes", " ">> \o NumToString(start) \o <<"-">> \o NumToString(end)
        \o <<"/">> \o Dec(fileSize)

\* fs.createReadStream(path, {start, end}) throws before it opens anything
\* when start or end is not a non-negative integer or start > end.
ReadStreamThrows(start, end) ==
    \/ ~IsInteger(start) \/ start.v < 0
    \/ end # Infinity /\ (~IsInteger(end) \/ end.v < 0 \/ start.v > end.v)

\* The byte at offset i (from 0) of the file at path p.
FileByte(p, i) == 100 + i

\* Offsets pos..last of the file, as a stream chunk.
FileBytes(p, pos, last) == [i \in 1..(last - pos + 1) |-> FileByte(p, pos + i - 1)]

\* How many bytes the stream can still read: up to end, and never past the
\* end of the open file.
Readable(pos, end, size) ==
    LET last == IF end = Infinity \/ end.v > size - 1 THEN size - 1 ELSE end.v
    IN  IF last < pos THEN 0 ELSE last - pos + 1

Min(a, b) == IF a < b THEN a ELSE b

(***************************************************************************)
(* The response object                                                     *)
(***************************************************************************)
NoHeaders == [contentType |-> "", contentLength |-> NoNumber,
              contentRange |-> Undefined, acceptRanges |-> FALSE,
              keepAlive |-> FALSE]

NewResponse == [writeHeadCalls |-> 0, statusCode |-> 0, headers |-> NoHeaders,
                headersSent |-> FALSE, text |-> "", body |-> <<>>,
                finished |-> FALSE, reset |-> FALSE]

\* res.writeHead throws once a header block is stored.
WriteHeadThrows(res) == res.writeHeadCalls > 0

\* res.writeHead(status, headers); a call that throws stores nothing.
writeHead(res, status, headers) ==
    IF WriteHeadThrows(res) THEN [res EXCEPT !.writeHeadCalls = @ + 1]
    ELSE [res EXCEPT !.writeHeadCalls = @ + 1, !.statusCode = status,
                     !.headers = headers]

\* res.end(text): flushes the stored header and completes the response.
resEnd(res, text) == [res EXCEPT !.headersSent = TRUE, !.text = text, !.finished = TRUE]

\* res.write(chunk), called by pipe on each 'data' event.
resWrite(res, chunk) == [res EXCEPT !.headersSent = TRUE, !.body = @ \o chunk]

\* send404(res)
send404(res) ==
    resEnd(writeHead(res, 404, [NoHeaders EXCEPT !.contentType = "text/plain"]),
        "404 Not Found")

\* sendJSON(res, data) with the default status
sendJSON(res, data) ==
    resEnd(writeHead(res, 200, [NoHeaders EXCEPT !.contentType = "application/json"]),
        data)

\* The header object of the no-Range branch.
FullHeaders(contentType, fileSize) ==
    [contentType |-> contentType, contentLength |-> Num(fileSize),
     contentRange |-> Undefined, acceptRanges |-> TRUE, keepAlive |-> FALSE]

\* responseHeaders of the ranged branch.
RangeHeaders(contentType, start, end, fileSize) ==
    [contentType |-> contentType, contentLength |-> ChunkSize(start, end),
     contentRange |-> ContentRange(start, end, fileSize),
     acceptRanges |-> TRUE, keepAlive |-> TRUE]

(***************************************************************************)
(* State                                                                   *)
(***************************************************************************)
VARIABLES
    endpoints,   \* app.endpoints: method -> list of {path, handler}
    boot,        \* how many of the module body's app.get calls have run
    listening,   \* server.listen has been called
    fs,          \* the disk: path -> what fs.stat and fs.open find there
    req,         \* per response object: the request and how far its handling is
    res,         \* per response object: the ServerResponse
    alive,       \* the process has not died of an uncaught exception
    thrownBy     \* the request whose code threw the uncaught exception

vars == <<endpoints, boot, listening, fs, req, res, alive, thrownBy>>

NoFile == [kind |-> "none", size |-> 0]
FileStates == {NoFile, [kind |-> "dir", size |-> 0]}
                  \cup {[kind |-> "file", size |-> n] : n \in 0..MaxFileSize}

\* The requests the listener is given.
HttpMethods == {"GET", "POST", "PATCH"}
Urls == {
    <<"/">>,
    <<"/", "favicon.ico">>,
    <<"/", "nope">>,
    <<"/", "api", "/", "videos">>,
    <<"/", "api", "/", "videos", "/", "1", "/", "info">>,
    <<"/", "api", "/", "videos", "/", "2", "/", "info">>,
    <<"/", "api", "/", "videos", "/", "1">>,
    <<"/", "api", "/", "videos", "/", "2">>,
    <<"/", "api", "/", "thumbnails", "/", "1">>,
    <<"/", "api", "/", "thumbnails", "/", "2">> }
HttpRanges == {Undefined, <<"bytes=", "0", "-">>}

\* The Range values sendFileAsStream is given: none, empty, bytes=s-e, bytes=s-,
\* bytes=s, and the malformed bytes=abc-def, bytes=-1 and bytes=.
RangeValues ==
    {Undefined, <<>>}
        \cup {<<"bytes=">> \o Dec(s) \o <<"-">> \o Dec(e) : s, e \in 0..MaxNum}
        \cup {<<"bytes=">> \o Dec(s) \o <<"-">> : s \in 0..MaxNum}
        \cup {<<"bytes=", "abc", "-", "def">>, <<"bytes=", "-", "1">>,
              <<"bytes=", "1">>, <<"bytes=">>}

FreeRequest ==
    [phase |-> "free", entry |-> "none", method |-> "", url |-> <<>>,
     range |-> Undefined, handler |-> "", id |-> Undefined,
     filePath |-> "", contentType |-> "", statCalls |-> 0,
     stat |-> [kind |-> "pending", size |-> 0],
     start |-> NoNumber, end |-> NoNumber, onError |-> FALSE,
     highWaterMark |-> 0, fd |-> "none", pos |-> 0, fdSize |-> 0]

Init ==
    /\ endpoints = [m \in Methods |-> <<>>]
    /\ boot = 0
    /\ listening = FALSE
    /\ fs \in [Paths -> FileStates]
    /\ req = [r \in Requests |-> FreeRequest]
    /\ res = [r \in Requests |-> NewResponse]
    /\ alive = TRUE
    /\ thrownBy = "none"

\* What fs.stat and fs.open find at path p.
Stat(p) == IF p \in DOMAIN fs THEN fs[p] ELSE NoFile

\* Every response object before r has been handed to a request.
Arrived(r) ==
    \A i, j \in DOMAIN RequestOrder :
        i < j /\ RequestOrder[j] = r => req[RequestOrder[i]].phase # "free"

(***************************************************************************)
(* Start-up: the module body                                               *)
(***************************************************************************)
\* The next app.get(path, handler) of the module body.
Register ==
    /\ boot < Len(Registrations)
    /\ LET e == Registrations[boot + 1]
       IN  endpoints' = registerEndpoint(endpoints, e.method, e.path, e.handler)
    /\ boot' = boot + 1
    /\ UNCHANGED <<listening, fs, req, res, alive, thrownBy>>

\* server.listen(PORT)
Listen ==
    /\ boot = Len(Registrations)
    /\ ~listening
    /\ listening' = TRUE
    /\ UNCHANGED <<endpoints, boot, fs, req, res, alive, thrownBy>>

(***************************************************************************)
(* Outcomes of a step of request r                                         *)
(***************************************************************************)
\* The step ends with r's request in state rq and its response in state rs.
Continue(r, rq, rs) ==
    /\ req' = [req EXCEPT ![r] = rq]
    /\ res' = [res EXCEPT ![r] = rs]
    /\ UNCHANGED <<alive, thrownBy>>

\* The step throws and nothing catches it: the process dies, and every
\* response that is not finished is cut with its connection.
Throw(r, rq, rs) ==
    /\ alive' = FALSE
    /\ thrownBy' = r
    /\ req' = [req EXCEPT ![r] = [rq EXCEPT !.phase = "threw"]]
    /\ res' = [q \in Requests |->
                 LET now == IF q = r THEN rs ELSE res[q]
                     open == IF q = r THEN TRUE ELSE req[q].phase # "free"
                 IN  IF open /\ ~now.finished THEN [now EXCEPT !.reset = TRUE]
                     ELSE now]

\* sendFileAsStream(res, filePath, contentType, rangeHeader) up to its return:
\* fs.stat is asked, the callback is pending.
sendFileAsStream(rq, filePath, contentType, rangeHeader) ==
    [rq EXCEPT !.phase = "stat", !.filePath = filePath,
               !.contentType = contentType, !.range = rangeHeader,
               !.statCalls = @ + 1]

(***************************************************************************)
(* The request listener and the handlers (synchronous, one step)           *)
(***************************************************************************)
\* Mutant: the handler does not test what find returned, so reading the
\* field of undefined throws for an unknown id.
FileHandler_NoTest(r, rq, field, contentType) ==
    IF ~HasVideo(rq.id) THEN Throw(r, rq, res[r])
    ELSE IF ~HasField(FindVideo(rq.id), field) THEN Throw(r, rq, res[r])
    ELSE Continue(r, sendFileAsStream(rq, FindVideo(rq.id)[field], contentType, rq.range),
                  res[r])

\* The '/api/videos/:id' and '/api/thumbnails/:id' handlers: field is the
\* catalog field the handler joins to __dirname.  path.join throws a
\* TypeError when the field is undefined.
FileHandler(r, rq, field, contentType) ==
    IF ~HasVideo(rq.id) THEN Continue(r, [rq EXCEPT !.phase = "done"], send404(res[r]))
    ELSE IF ~HasField(FindVideo(rq.id), field) THEN Throw(r, rq, res[r])
    ELSE Continue(r, sendFileAsStream(rq, FindVideo(rq.id)[field], contentType, rq.range),
                  res[r])

\* The '/api/videos/:id/info' handler.
InfoHandler(r, rq) ==
    IF ~HasVideo(rq.id) THEN Continue(r, [rq EXCEPT !.phase = "done"], send404(res[r]))
    ELSE Continue(r, [rq EXCEPT !.phase = "done"], sendJSON(res[r], "videoObj"))

\* http.createServer's listener on a request (method, url, Range header).
Receive(r) ==
    /\ alive /\ listening
    /\ req[r].phase = "free" /\ Arrived(r)
    /\ UNCHANGED <<endpoints, boot, listening, fs>>
    /\ \E method \in HttpMethods, url \in Urls, range \in HttpRanges :
          LET found == findEndpointHandler(endpoints, method, url)
              rq == [FreeRequest EXCEPT !.entry = "http", !.method = method,
                                        !.url = url, !.range = range,
                                        !.handler = found.handler,
                                        !.id = Param(found.params, <<"id">>)]
              done == [rq EXCEPT !.phase = "done"]
          IN  CASE found.handler = "null" -> Continue(r, done, send404(res[r]))
                [] found.handler = "root" -> Continue(r, done, sendJSON(res[r], "message"))
                [] found.handler = "favicon" -> Continue(r, done, send404(res[r]))
                [] found.handler = "videos" -> Continue(r, done, sendJSON(res[r], "videos"))
                [] found.handler = "videoInfo" -> InfoHandler(r, rq)
                [] found.handler = "video" ->
                       FileHandler(r, rq, "internalVideoUrl", "video/mp4")
                [] found.handler = "thumbnail" ->
                       FileHandler(r, rq, "internalThumbnailUrl", "image/png")

\* sendFileAsStream called with a response object, a file, its content type
\* and a Range value (no catalog entry has the fields the two file handlers
\* read, so the function is also driven directly).
Invoke(r) ==
    /\ alive /\ listening
    /\ req[r].phase = "free" /\ Arrived(r)
    /\ UNCHANGED <<endpoints, boot, listening, fs>>
    /\ \E filePath \in Paths, rangeHeader \in RangeValues :
          LET contentType == "video/mp4"
          IN  Continue(r, sendFileAsStream([FreeRequest EXCEPT !.entry = "call"],
                                           filePath, contentType, rangeHeader),
                       res[r])

(***************************************************************************)
(* sendFileAsStream: the fs.stat callback and the stream events            *)
(***************************************************************************)
\* The fs.stat callback.
StatCallback(r) ==
    /\ alive
    /\ req[r].phase = "stat"
    /\ UNCHANGED <<endpoints, boot, listening, fs>>
    /\ LET rq == req[r]
           stat == Stat(rq.filePath)
           fileSize == stat.size
           start == RangeStart(rq.range)
           end == RangeEnd(rq.range, fileSize)
           full == [rq EXCEPT !.phase = "open", !.stat = stat,
                              !.start = Num(0), !.end = Infinity,
                              !.onError = FALSE,
                              !.highWaterMark = DefaultHighWaterMark]
           part == [rq EXCEPT !.phase = "open", !.stat = stat,
                              !.start = start, !.end = end, !.onError = TRUE,
                              !.highWaterMark = HighWaterMark]
       IN  IF stat.kind # "file"
           THEN Continue(r, [rq EXCEPT !.phase = "done", !.stat = stat],
                         send404(res[r]))
           ELSE IF NoRange(rq.range)
           THEN Continue(r, full,
                         writeHead(res[r], 200, FullHeaders(rq.contentType, fileSize)))
           ELSE LET rs == writeHead(res[r], 206,
                                    RangeHeaders(rq.contentType, start, end, fileSize))
                IN  IF ReadStreamThrows(start, end) THEN Throw(r, part, rs)
                    ELSE Continue(r, part, rs)

\* The stream emits 'error'.  With the ranged branch's listener, send404
\* runs: its writeHead throws when a header block is already stored, else
\* the 404 is written and the response ended.  With no listener the error
\* itself is thrown.
StreamError(r, rq) ==
    IF rq.onError
    THEN IF WriteHeadThrows(res[r])
         THEN Throw(r, rq, writeHead(res[r], 404, NoHeaders))
         ELSE Continue(r, [rq EXCEPT !.phase = "done"], send404(res[r]))
    ELSE Throw(r, rq, res[r])

\* The stream opens the file: 'error' when it is not there any more.
StreamOpen(r) ==
    /\ alive
    /\ req[r].phase = "open"
    /\ UNCHANGED <<endpoints, boot, listening, fs>>
    /\ LET rq == req[r]
       IN  IF Stat(rq.filePath).kind = "file"
           THEN Continue(r, [rq EXCEPT !.phase = "read", !.fd = "open",
                                       !.pos = rq.start.v,
                                       !.fdSize = Stat(rq.filePath).size],
                         res[r])
           ELSE StreamError(r, [rq EXCEPT !.fd = "failed"])

\* A 'data' event: pipe writes the next chunk to the response.
StreamData(r) ==
    /\ alive
    /\ req[r].phase = "read"
    /\ UNCHANGED <<endpoints, boot, listening, fs>>
    /\ LET rq == req[r]
           n == Min(rq.highWaterMark, Readable(rq.pos, rq.end, rq.fdSize))
       IN  /\ n > 0
           /\ Continue(r, [rq EXCEPT !.pos = @ + n],
                       resWrite(res[r], FileBytes(rq.filePath, rq.pos, rq.pos + n - 1)))

\* The 'end' event: nothing is left to read, pipe ends the response.
StreamEnd(r) ==
    /\ alive
    /\ req[r].phase = "read"
    /\ UNCHANGED <<endpoints, boot, listening, fs>>
    /\ Readable(req[r].pos, req[r].end, req[r].fdSize) = 0
    /\ Continue(r, [req[r] EXCEPT !.phase = "done"], resEnd(res[r], ""))

\* A read of the open file fails (an I/O error): the stream emits 'error'.
StreamReadError(r) ==
    /\ alive
    /\ req[r].phase = "read"
    /\ UNCHANGED <<endpoints, boot, listening, fs>>
    /\ StreamError(r, req[r])

\* The environment removes a file.
Unlink(p) ==
    /\ alive /\ listening
    /\ fs[p].kind = "file"
    /\ fs' = [fs EXCEPT ![p] = NoFile]
    /\ UNCHANGED <<endpoints, boot, listening, req, res, alive, thrownBy>>

Next ==
    \/ Register
    \/ Listen
    \/ \E r \in Requests : Receive(r)
    \/ \E r \in Requests : Invoke(r)
    \/ \E r \in Requests : StatCallback(r)
    \/ \E r \in Requests : StreamOpen(r)
    \/ \E r \in Requests : StreamData(r)
    \/ \E r \in Requests : StreamEnd(r)
    \/ \E r \in Requests : StreamReadError(r)
    \/ \E p \in Paths : Unlink(p)

Spec == Init /\ [][Next]_vars

(***************************************************************************)
(* Properties                                                              *)
(***************************************************************************)
IsPrefix(a, b) == Len(a) <= Len(b) /\ a = SubSeq(b, 1, Len(a))

\* The fs.stat callback of r has run and found a regular file.
FoundFile(r) == req[r].stat.kind = "file"

\* 'bytes=<s>-<e>' and 'bytes=<s>-'
ClosedRange(s, e) == <<"bytes=">> \o Dec(s) \o <<"-">> \o Dec(e)
OpenRange(s) == <<"bytes=">> \o Dec(s) \o <<"-">>

\* 'bytes <s>-<e>/<size>'
ContentRangeText(s, e, size) ==
    <<"bytes", " ">> \o Dec(s) \o <<"-">> \o Dec(e) \o <<"/">> \o Dec(size)

\* The url is /api/videos/<id> or /api/thumbnails/<id>.
IsFileUrl(url) ==
    /\ Len(url) = 6
    /\ SubSeq(url, 1, 3) = <<"/", "api", "/">>
    /\ url[4] \in {"videos", "thumbnails"}
    /\ url[5] = "/"

InCatalog(id) == \E i \in DOMAIN videoList : videoList[i].id = id

\* C1: for a file of size >= 1 and a Range 'bytes=s-e' or 'bytes=s-' (e then
\* size-1) with 0 <= s <= e < size, the response has status 206, Content-Range
\* 'bytes s-e/size' and Content-Length e-s+1; what is streamed is always a
\* prefix of the file's bytes s..e, and exactly those bytes once the response
\* is complete.
C1_RangeResponse ==
    \A r \in Requests : \A s, e \in 0..MaxNum :
        LET size == req[r].stat.size
        IN  ( /\ FoundFile(r) /\ size >= 1
              /\ \/ req[r].range = ClosedRange(s, e)
                 \/ req[r].range = OpenRange(s) /\ e = size - 1
              /\ s <= e /\ e < size )
            => /\ res[r].statusCode = 206
               /\ res[r].headers.contentRange = ContentRangeText(s, e, size)
               /\ res[r].headers.contentLength = Num(e - s + 1)
               /\ IsPrefix(res[r].body, [i \in 1..(e - s + 1) |-> 100 + s + i - 1])
               /\ res[r].finished =>
                      res[r].body = [i \in 1..(e - s + 1) |-> 100 + s + i - 1]

\* A completed 206 for 'bytes=1-1' on a 2-byte file carrying the second byte.
C1_Witness ==
    \E r \in Requests :
        /\ req[r].range = ClosedRange(1, 1) /\ FoundFile(r) /\ req[r].stat.size = 2
        /\ res[r].finished /\ res[r].statusCode = 206 /\ res[r].body = <<101>>

\* C2: with no Range header or an empty one and a regular file, the response
\* has status 200, Content-Length the file size and no Content-Range; what is
\* streamed is a prefix of the file, and the whole file once the response is
\* complete.
C2_FullResponse ==
    \A r \in Requests :
        LET size == req[r].stat.size
        IN  (FoundFile(r) /\ req[r].range \in {Undefined, <<>>})
            => /\ res[r].statusCode = 200
               /\ res[r].headers.contentLength = Num(size)
               /\ res[r].headers.contentRange = Undefined
               /\ IsPrefix(res[r].body, [i \in 1..size |-> 100 + i - 1])
               /\ res[r].finished => res[r].body = [i \in 1..size |-> 100 + i - 1]

\* A completed 200 for an empty Range value on a 2-byte file, both bytes sent.
C2_Witness ==
    \E r \in Requests :
        /\ req[r].range = <<>> /\ FoundFile(r) /\ req[r].stat.size = 2
        /\ res[r].finished /\ res[r].statusCode = 200 /\ res[r].body = <<100, 101>>

\* C3: a malformed Range value ('bytes=abc-def') on an existing file gets the
\* full-file response: status 200, Content-Length the file size, no
\* Content-Range, and the request does not fail.
C3_MalformedFallsBack ==
    \A r \in Requests :
        (FoundFile(r) /\ req[r].range = <<"bytes=", "abc", "-", "def">>)
        => /\ res[r].statusCode = 200
           /\ res[r].headers.contentLength = Num(req[r].stat.size)
           /\ res[r].headers.contentRange = Undefined
           /\ thrownBy # r

\* C4: a GET of /api/videos/<id> or /api/thumbnails/<id> with an id that no
\* catalog entry has is answered, whatever its Range header, with a complete
\* 404 that has no Content-Range, Accept-Ranges or Content-Length, written
\* once, and no file is stat'ed or opened for it.
C4_UnknownId404 ==
    \A r \in Requests :
        ( /\ req[r].entry = "http" /\ req[r].method = "GET"
          /\ IsFileUrl(req[r].url) /\ ~InCatalog(<<req[r].url[6]>>) )
        => /\ res[r].statusCode = 404 /\ res[r].finished /\ ~res[r].reset
           /\ res[r].writeHeadCalls = 1
           /\ res[r].headers.contentRange = Undefined
           /\ ~res[r].headers.acceptRanges
           /\ res[r].headers.contentLength = NoNumber
           /\ res[r].body = <<>>
           /\ req[r].statCalls = 0 /\ req[r].fd = "none"

\* GET /api/thumbnails/2 with 'Range: bytes=0-' answered 404.
C4_Witness ==
    \E r \in Requests :
        /\ req[r].entry = "http" /\ req[r].method = "GET"
        /\ req[r].url = <<"/", "api", "/", "thumbnails", "/", "2">>
        /\ req[r].range = <<"bytes=", "0", "-">>
        /\ res[r].statusCode = 404 /\ res[r].finished

\* The file a catalog entry names for the route of the url.
BackingFile(url) ==
    LET entry == videoList[CHOOSE i \in DOMAIN videoList : videoList[i].id = <<url[6]>>]
    IN  IF url[4] = "videos" THEN entry.videoUrl ELSE entry.thumbnailUrl

\* C5: a GET of /api/videos/<id> or /api/thumbnails/<id> with an id of the
\* catalog whose backing file is not a regular file on disk never has status
\* 200 or 206 written, and once handled it is answered with a complete 404.
C5_MissingFile404 ==
    \A r \in Requests :
        ( /\ req[r].entry = "http" /\ req[r].method = "GET"
          /\ IsFileUrl(req[r].url) /\ InCatalog(<<req[r].url[6]>>)
          /\ Stat(BackingFile(req[r].url)).kind # "file" )
        => /\ res[r].statusCode \notin {200, 206}
           /\ req[r].phase \in {"done", "threw"} =>
                  res[r].statusCode = 404 /\ res[r].finished

\* C6: every 206 response describes a valid byte range: its Content-Range is
\* 'bytes s-e/size' with 0 <= s <= e < size, and its Content-Length is e-s+1.
C6_ValidByteRange ==
    \A r \in Requests :
        res[r].statusCode = 206
        => \E s, e \in 0..MaxNum :
              /\ s <= e /\ e < req[r].stat.size
              /\ res[r].headers.contentRange = ContentRangeText(s, e, req[r].stat.size)
              /\ res[r].headers.contentLength = Num(e - s + 1)

\* C7: a request given to the listener whose handling has ended has one
\* completed response, with status 200, 206 or 404.
C7_HandledOnce ==
    \A r \in Requests :
        (req[r].entry = "http" /\ req[r].phase \in {"done", "threw"})
        => /\ res[r].finished
           /\ res[r].writeHeadCalls = 1
           /\ res[r].statusCode \in {200, 206, 404}

\* C8: requests are independent: a response is cut short only by a failure
\* of its own request, never by what another request in flight does.
C8_Independent ==
    \A r \in Requests : res[r].reset => thrownBy = r

\* C9: writeHead is called at most once on every response: no 404 is written
\* after the 200 or 206 header of a response whose stream fails.
C9_WriteHeadOnce ==
    \A r \in Requests : res[r].writeHeadCalls <= 1

\* C10: when the file cannot be opened after its metadata was resolved and
\* no body byte was sent, the client gets a complete 404, not a 200 or 206.
C10_OpenFailure404 ==
    \A r \in Requests :
        (req[r].fd = "failed" /\ res[r].body = <<>>)
        => res[r].statusCode = 404 /\ res[r].finished

====
